---------------------------- MODULE Spec2Model ----------------------------
(***************************************************************************)
(* A model of src/src/worktree.ts: one invocation of the worktree CLI.     *)
(*                                                                         *)
(* Strings are sequences of one-character strings, so that the string      *)
(* conversions of the script (replace, split, join, the exclude regex) are *)
(* computed the way the script computes them.                              *)
(***************************************************************************)
EXTENDS Integers, Sequences, FiniteSets, TLC

(***************************************************************************)
(* Bounds of the model.                                                    *)
(***************************************************************************)
\* at most this many post-create hooks are configured
MaxHooks == 2
\* at most this many files of the universe are present in the source tree
MaxSrcFiles == 2
\* at most this many exclude patterns are configured
MaxExclude == 1

(***************************************************************************)
(* String helpers (JavaScript String and node:path, POSIX flavour).        *)
(***************************************************************************)
NoString == << >>

\* s.startsWith(pat, i-1), 1-based
StartsWithAt(s, pat, i) ==
    /\ i + Len(pat) - 1 <= Len(s)
    /\ \A k \in 1..Len(pat) : s[i + k - 1] = pat[k]

\* s.indexOf(pat) + 1: the first place pat occurs in s, 0 when it does not
IndexOf(s, pat) ==
    LET hits == { i \in 1..(Len(s) + 1) : StartsWithAt(s, pat, i) }
    IN  IF hits = {} THEN 0 ELSE CHOOSE i \in hits : \A j \in hits : i <= j

\* includes(pat)
Includes(s, pat) == IndexOf(s, pat) # 0

\* s.replace(pat, rep) with a string pattern: the first occurrence only
ReplaceFirst(s, pat, rep) ==
    LET i == IndexOf(s, pat)
    IN  IF i = 0 THEN s
        ELSE SubSeq(s, 1, i - 1) \o rep \o SubSeq(s, i + Len(pat), Len(s))

\* s.replace(/c/g, rep) for a one-character pattern c: every occurrence
RECURSIVE ReplaceAllChar(_, _, _)
ReplaceAllChar(s, c, rep) ==
    IF s = << >> THEN << >>
    ELSE (IF Head(s) = c THEN rep ELSE << Head(s) >>)
             \o ReplaceAllChar(Tail(s), c, rep)

\* s.split(c): the pieces of s between the occurrences of the character c
RECURSIVE Split(_, _)
Split(s, c) ==
    LET i == IndexOf(s, << c >>)
    IN  IF i = 0 THEN << s >>
        ELSE << SubSeq(s, 1, i - 1) >> \o Split(SubSeq(s, i + 1, Len(s)), c)

\* pieces.join(c)
RECURSIVE JoinWith(_, _)
JoinWith(pieces, c) ==
    IF pieces = << >> THEN << >>
    ELSE IF Len(pieces) = 1 THEN pieces[1]
    ELSE pieces[1] \o << c >> \o JoinWith(Tail(pieces), c)

\* s.trim(), blanks being the only white space of the model
RECURSIVE TrimLeft(_)
TrimLeft(s) ==
    IF s # << >> /\ Head(s) = " " THEN TrimLeft(Tail(s)) ELSE s

RECURSIVE TrimRight(_)
TrimRight(s) ==
    IF s # << >> /\ s[Len(s)] = " " THEN TrimRight(SubSeq(s, 1, Len(s) - 1)) ELSE s

Trim(s) == TrimRight(TrimLeft(s))

\* the segments of a path after node's normalizeString: "" and "." dropped,
\* ".." pops the segment before it (kept at the front of a relative path)
RECURSIVE NormSegs(_, _, _)
NormSegs(segs, acc, absolute) ==
    IF segs = << >> THEN acc
    ELSE LET h == Head(segs)
         IN  IF h = << >> \/ h = << "." >>
             THEN NormSegs(Tail(segs), acc, absolute)
             ELSE IF h = << ".", "." >>
             THEN IF acc # << >> /\ acc[Len(acc)] # << ".", "." >>
                  THEN NormSegs(Tail(segs), SubSeq(acc, 1, Len(acc) - 1), absolute)
                  ELSE IF absolute
                  THEN NormSegs(Tail(segs), acc, absolute)
                  ELSE NormSegs(Tail(segs), Append(acc, h), absolute)
             ELSE NormSegs(Tail(segs), Append(acc, h), absolute)

IsAbsolute(p) == p # << >> /\ Head(p) = "/"

\* path.normalize(p), for paths without a trailing slash
Normalize(p) ==
    LET body == JoinWith(NormSegs(Split(p, "/"), << >>, IsAbsolute(p)), "/")
    IN  IF IsAbsolute(p) THEN << "/" >> \o body
        ELSE IF body = << >> THEN << "." >> ELSE body

\* path.join(a, b)
PathJoin(a, b) ==
    IF a = << >> THEN Normalize(b)
    ELSE IF b = << >> THEN Normalize(a)
    ELSE Normalize(a \o << "/" >> \o b)

\* path.resolve(from, to), from being absolute
PathResolve(from, to) ==
    IF IsAbsolute(to) THEN Normalize(to) ELSE Normalize(from \o << "/" >> \o to)

\* path.dirname(p) of a normalized path
Dirname(p) ==
    LET segs == Split(p, "/")
        dir  == JoinWith(SubSeq(segs, 1, Len(segs) - 1), "/")
    IN  IF Len(segs) = 1 THEN << "." >>
        ELSE IF dir = << >> THEN << "/" >>
        ELSE dir

\* file.split('/').pop() || ''
Basename(file) ==
    LET segs == Split(file, "/") IN segs[Len(segs)]

\* p lies strictly below the directory root
IsUnder(p, root) == StartsWithAt(p, root \o << "/" >>, 1)


(***************************************************************************)
(* Pattern matching.                                                       *)
(***************************************************************************)
\* fnmatch as `find -name` applies it to a basename: the whole name must
\* match, `*` stands for any run of characters (the alphabet of the model has
\* no `?`, `[` or `\`)
RECURSIVE GlobMatch(_, _)
GlobMatch(p, s) ==
    IF p = << >> THEN s = << >>
    ELSE IF Head(p) = "*"
    THEN GlobMatch(Tail(p), s) \/ (s # << >> /\ GlobMatch(p, Tail(s)))
    ELSE s # << >> /\ Head(s) = Head(p) /\ GlobMatch(Tail(p), Tail(s))

\* A JavaScript regular expression made of characters, `.` (any character)
\* and `*` (zero or more of the atom before it) matches a prefix of s
RECURSIVE RegexMatchStar(_, _, _)
RECURSIVE RegexMatchHere(_, _)
RegexMatchHere(re, s) ==
    IF re = << >> THEN TRUE
    ELSE IF Len(re) >= 2 /\ re[2] = "*"
    THEN RegexMatchStar(re[1], SubSeq(re, 3, Len(re)), s)
    ELSE /\ s # << >>
         /\ (re[1] = "." \/ re[1] = Head(s))
         /\ RegexMatchHere(Tail(re), Tail(s))

RegexMatchStar(c, re, s) ==
    \/ RegexMatchHere(re, s)
    \/ /\ s # << >>
       /\ (c = "." \/ c = Head(s))
       /\ RegexMatchStar(c, re, Tail(s))

\* regex.test(s) of an unanchored expression: it matches somewhere in s
RegexTest(re, s) ==
    \E i \in 1..(Len(s) + 1) : RegexMatchHere(re, SubSeq(s, i, Len(s)))

\* new RegExp(pattern.replace(/\*/g, '.*'))
ExcludeRegex(pattern) == ReplaceAllChar(pattern, "*", << ".", "*" >>)

\* the body of the exclusion filter: is `file` removed?
Excluded(exclude, file) ==
    \E k \in 1..Len(exclude) : RegexTest(ExcludeRegex(exclude[k]), Basename(file))

\* a findEnvFiles that keeps the duplicates
DedupeNothing(files) == files

\* [...new Set(files)]: the first occurrence of every element, in order
RECURSIVE Dedupe(_)
Dedupe(files) ==
    IF files = << >> THEN << >>
    ELSE LET rest == Dedupe(SubSeq(files, 1, Len(files) - 1))
             last == files[Len(files)]
         IN  IF \E k \in 1..Len(rest) : rest[k] = last THEN rest
             ELSE Append(rest, last)

\* stdout of `find dir -name pattern -type f`, split into lines: the regular
\* files of the tree (in directory order) that lie below dir and whose
\* basename matches the pattern
RECURSIVE FindFiles(_, _, _)
FindFiles(tree, dir, pattern) ==
    IF tree = << >> THEN << >>
    ELSE (IF IsUnder(Head(tree), dir) /\ GlobMatch(pattern, Basename(Head(tree)))
          THEN << Head(tree) >> ELSE << >>)
             \o FindFiles(Tail(tree), dir, pattern)

\* the loop over the include patterns; findOk[k] tells whether the k-th
\* `find` exited with 0 (a failing find contributes nothing)
RECURSIVE FindAll(_, _, _, _)
FindAll(tree, dir, patterns, findOk) ==
    IF patterns = << >> THEN << >>
    ELSE (IF Head(findOk) THEN FindFiles(tree, dir, Head(patterns)) ELSE << >>)
             \o FindAll(tree, dir, Tail(patterns), Tail(findOk))

ApplyExclusions(files, exclude) ==
    IF Len(exclude) > 0
    THEN SelectSeq(files, LAMBDA f : ~Excluded(exclude, f))
    ELSE files

findEnvFiles(tree, dir, patterns, exclude, findOk) ==
    ApplyExclusions(Dedupe(FindAll(tree, dir, patterns, findOk)), exclude)


(***************************************************************************)
(* The inputs of a run.                                                    *)
(***************************************************************************)
\* config.git?.remote || 'origin'
remote == << "o", "r", "i", "g", "i", "n" >>
\* config.git?.defaultBranch || 'main'
defaultBranch == << "m", "a", "i", "n" >>
\* config.worktree?.prefix || 'assurix'
prefix == << "a", "s", "s", "u", "r", "i", "x" >>
\* process.cwd() when the script starts: the main checkout
StartDir == << "/", "w", "/", "r" >>
CREATE_NEW == << "+", " ", "C", "r", "e", "a", "t", "e", " ", "n", "e", "w", " ", "b", "r", "a", "n", "c", "h" >>

\* two branch names with the same safe name, and the default branch
FeatureX == << "f", "/", "x", "/", "y" >>
FeatureDashX == << "f", "-", "x", "/", "y" >>

\* the branch names a user asks for
BranchNames == { FeatureX, FeatureDashX, defaultBranch }
\* the branches the repository and its remote may hold before the run
RefNames == { FeatureX, defaultBranch }
\* a branch of the remote with HEAD in its name
FixHead == << "f", "i", "x", "-", "H", "E", "A", "D" >>
\* the remote-tracking branches of a second remote
ForeignNames == { << "u", "p", "s", "t", "r", "e", "a", "m", "/", "d", "e", "v" >>, << "u", "p", "s", "t", "r", "e", "a", "m", "/", "m", "a", "i", "n" >> }

\* what a user may type at the "new branch name" prompt
\* the name of the default branch after a space
PaddedMain == << " ", "m", "a", "i", "n" >>
TypedNames == BranchNames \cup { <<  >>, << " " >>, PaddedMain }

\* a custom worktree.location
CustomLocation == << ".", ".", "/", "{", "p", "r", "e", "f", "i", "x", "}", "/", "{", "o", "r", "i", "g", "i", "n", "a", "l", "-", "b", "r", "a", "n", "c", "h", "}" >>

\* the k-th post-create hook of the configuration
HookCommand(k) == << "h", "o", "o", "k", " " >> \o [ i \in 1..k |-> "x" ]

\* the files the source tree may hold, in directory order
FileUniverse ==
    << << "/", "w", "/", "r", "/", ".", "e", "n", "v" >>,
       << "/", "w", "/", "r", "/", "a", "/", ".", "e", "n", "v" >>,
       << "/", "w", "/", "r", "/", "a", "/", ".", "e", "n", "v", ".", "e", "x", "a", "m", "p", "l", "e" >>,
       << "/", "w", "/", "r", "/", "b", "/", ".", "e", "n", "v", ".", "l", "o", "c", "a", "l" >>,
       << "/", "w", "/", "r", "/", "w", "/", "r", "/", ".", "e", "n", "v" >> >>

\* the sub-sequence of s at the places in idx
RECURSIVE Pick(_, _)
Pick(s, idx) ==
    IF s = << >> THEN << >>
    ELSE (IF Len(s) \in idx THEN Pick(SubSeq(s, 1, Len(s) - 1), idx) \o << s[Len(s)] >>
          ELSE Pick(SubSeq(s, 1, Len(s) - 1), idx))

Trees ==
    { Pick(FileUniverse, idx) :
        idx \in { i \in SUBSET (1..Len(FileUniverse)) : Cardinality(i) <= MaxSrcFiles } }

\* env.patterns || ['.env*']
DefaultPatterns == << << ".", "e", "n", "v", "*" >> >>
PatternLists ==
    { DefaultPatterns, << << ".", "e", "n", "v", "*" >>, << "*", ".", "l", "o", "c", "a", "l" >> >>, << << ".", "e", "n", "v" >> >> }

ExcludePatterns == { << ".", "e", "n", "v", ".", "e", "x", "a", "m", "p", "l", "e" >>, << ".", "e", "n", "v" >>, << "*", ".", "l", "o", "c", "a", "l" >> }
ExcludeLists ==
    UNION { [ 1..n -> ExcludePatterns ] : n \in 0..MaxExclude }

\* a packageManager.command and a packageManager.force
CustomCommand == << "m", "a", "k", "e", " ", "d", "e", "p", "s" >>
ForcedManager == << "y", "a", "r", "n" >>

\* the lock files in the checkout of a branch
LockFilesOf(branch) ==
    IF branch = FeatureX THEN { << "y", "a", "r", "n", ".", "l", "o", "c", "k" >>, << "p", "a", "c", "k", "a", "g", "e", "-", "l", "o", "c", "k", ".", "j", "s", "o", "n" >> }
    ELSE IF branch = FeatureDashX THEN { << "b", "u", "n", ".", "l", "o", "c", "k", "b" >> }
    ELSE IF branch = defaultBranch THEN { << "p", "n", "p", "m", "-", "l", "o", "c", "k", ".", "y", "a", "m", "l" >>, << "y", "a", "r", "n", ".", "l", "o", "c", "k" >> }
    ELSE { }

\* the options of .worktreerc.json the model varies, with their defaults
DefaultConfig ==
    [ fetch |-> TRUE, pushNewBranches |-> FALSE, copy |-> TRUE,
      install |-> TRUE, open |-> TRUE, postCreate |-> << >>,
      location |-> NoString, patterns |-> DefaultPatterns, exclude |-> << >>,
      command |-> NoString, force |-> NoString ]

HookLists == { [ k \in 1..n |-> HookCommand(k) ] : n \in 0..MaxHooks }

AllConfigs ==
    [ fetch : BOOLEAN, pushNewBranches : BOOLEAN, copy : BOOLEAN,
      install : BOOLEAN, open : BOOLEAN, postCreate : HookLists,
      location : { NoString, CustomLocation },
      patterns : { DefaultPatterns }, exclude : { << >> },
      command : { NoString, CustomCommand }, force : { NoString, ForcedManager } ]

\* how many options of c are set to something else than the default
Settings(c) ==
    Cardinality({ f \in DOMAIN c : c[f] # DefaultConfig[f] })

\* the configurations of the model: the default one, those that change one
\* option, and those that configure hooks together with the auto-push
Configs ==
    { c \in AllConfigs :
        \/ Settings(c) <= 1
        \/ Settings(c) = 2 /\ c.pushNewBranches /\ c.postCreate # << >> }

\* the configurations of the env-file step: the default one with the
\* include and exclude patterns varied
EnvConfigs ==
    { [ DefaultConfig EXCEPT !.patterns = p, !.exclude = e ] :
        p \in PatternLists, e \in ExcludeLists }

(***************************************************************************)
(* The state.                                                              *)
(***************************************************************************)
VARIABLES
    pc,             \* the statement of createWorktree the run is at
    exitCode,       \* the exit code of the process, once pc = "done"
    outcome,        \* how the run ended: the fatal error, or "ok", "cancelled"
    warnings,       \* the number of non-fatal failures reported so far
    config,         \* loadConfig()
    branchName,     \* argv._[0], NoString when absent
    localRefs,      \* the branches b with refs/heads/b
    remoteRefs,     \* the branches b with refs/remotes/<remote>/b
    upstream,       \* pairs <<b, u>>: branch b tracks u
    gitConfig,      \* pairs <<key, value>> written by `git config`
    pushed,         \* the branches pushed to the remote by this run
    dirs,           \* the directories that exist (absolute paths)
    tree,           \* the regular files of the source tree, in directory order
    branches,       \* the inventory getRemoteBranches returned
    selectedBranch,
    worktreePath,
    originalDir,
    cwd,            \* process.cwd()
    classification, \* the branch of the creation step that was taken
    cmds,           \* the external commands issued so far, in order
    allFiles,       \* findEnvFiles: the files found, before the exclusions
    envFiles,       \* the result of findEnvFiles
    envPos,         \* the place in envFiles the copy loop is at
    copied,         \* the copies made: [from, to]
    hookPos,        \* the place in hooks.postCreate the hook loop is at
    typed,          \* the value last submitted at the "new branch name" prompt
    foreignRefs,    \* the remote-tracking branches <other>/<b> of other remotes
    peer,           \* a second invocation that runs at the same time
    shell,          \* the settings of zx's $: [verbose, cwd]
    installFrame    \* the locals of the install step: what it saved of $

vars ==
    << pc, exitCode, outcome, warnings, config, branchName, localRefs,
       remoteRefs, upstream, gitConfig, pushed, dirs, tree, branches,
       selectedBranch, worktreePath, originalDir, cwd, classification, cmds,
       allFiles, envFiles, envPos, copied, hookPos, typed, foreignRefs, peer,
       shell, installFrame >>

gitVars == << localRefs, remoteRefs, upstream, gitConfig, pushed >>
envVars == << allFiles, envFiles, envPos, copied >>
selVars == << branches, selectedBranch, worktreePath, originalDir, classification >>

\* no second invocation
NoPeer == [ pc |-> "none" ]

\* $.verbose = false at the top of the script; $.cwd is not set
InitialShell == [ verbose |-> FALSE, cwd |-> NoString ]

\* the install step has not been entered
NoFrame ==
    [ entered |-> FALSE, custom |-> FALSE, packageManager |-> NoString,
      originalVerbose |-> FALSE, originalCwd |-> NoString, thrown |-> FALSE ]

\* one external command: what was run, its arguments, and where
Cmd(verb, args) == [ verb |-> verb, args |-> args, cwd |-> cwd ]

\* process.exit(code), or the end of the script
Exit(code, how) ==
    /\ pc' = "done"
    /\ exitCode' = code
    /\ outcome' = how

Running ==
    /\ exitCode' = exitCode
    /\ outcome' = outcome

\* a catch block that lets the failure end the run
CaughtEndsRun(ok, next) ==
    /\ UNCHANGED warnings
    /\ IF ok THEN pc' = next /\ Running ELSE Exit(1, "OptionalStepError")

\* the catch block of an optional step: a failure is reported as a warning
\* and the run goes on with the statement after the try block
Caught(ok, next) ==
    /\ warnings' = IF ok THEN warnings ELSE warnings + 1
    /\ pc' = next
    /\ Running

(***************************************************************************)
(* Sorting (Array.prototype.sort without a comparator: by code units).     *)
(***************************************************************************)
CodeUnit ==
    (" " :> 32) @@ ("+" :> 43) @@ ("-" :> 45) @@ ("." :> 46) @@ ("/" :> 47)
    @@ (">" :> 62) @@ ("A" :> 65) @@ ("C" :> 67) @@ ("D" :> 68) @@ ("E" :> 69)
    @@ ("H" :> 72)
    @@ ("a" :> 97) @@ ("b" :> 98) @@ ("c" :> 99) @@ ("e" :> 101) @@ ("f" :> 102)
    @@ ("g" :> 103) @@ ("h" :> 104) @@ ("i" :> 105) @@ ("m" :> 109)
    @@ ("n" :> 110) @@ ("o" :> 111) @@ ("r" :> 114) @@ ("t" :> 116)
    @@ ("w" :> 119) @@ ("x" :> 120) @@ ("d" :> 100) @@ ("p" :> 112)
    @@ ("s" :> 115) @@ ("u" :> 117) @@ ("v" :> 118)

RECURSIVE StrLess(_, _)
StrLess(a, b) ==
    IF b = << >> THEN FALSE
    ELSE IF a = << >> THEN TRUE
    ELSE IF Head(a) = Head(b) THEN StrLess(Tail(a), Tail(b))
    ELSE CodeUnit[Head(a)] < CodeUnit[Head(b)]

RECURSIVE Insert(_, _)
Insert(sorted, s) ==
    IF sorted = << >> THEN << s >>
    ELSE IF StrLess(s, Head(sorted)) THEN << s >> \o sorted
    ELSE << Head(sorted) >> \o Insert(Tail(sorted), s)

RECURSIVE Sort(_)
Sort(s) == IF s = << >> THEN << >> ELSE Insert(Sort(Tail(s)), Head(s))

RECURSIVE SetToSeq(_)
SetToSeq(S) ==
    IF S = {} THEN << >>
    ELSE LET x == CHOOSE y \in S : TRUE IN << x >> \o SetToSeq(S \ { x })

(***************************************************************************)
(* getRemoteBranches                                                       *)
(***************************************************************************)
\* stdout of `git branch -r`, split at the line ends: one line per
\* remote-tracking branch, the line of the remote's HEAD, and the empty piece
\* after the last line end
BranchLines(refs, foreign) ==
    SetToSeq({ << " ", " " >> \o remote \o << "/" >> \o b : b \in refs }
             \cup { << " ", " " >> \o f : f \in foreign })
        \o (IF defaultBranch \in refs
            THEN << << " ", " " >> \o remote \o << "/", "H", "E", "A", "D", " ", "-", ">", " " >> \o remote \o << "/" >> \o defaultBranch >>
            ELSE << >>)
        \o << <<  >> >>

RECURSIVE MapLines(_)
MapLines(lines) ==
    IF lines = << >> THEN << >>
    ELSE << ReplaceFirst(Trim(Head(lines)), remote \o << "/" >>, <<  >>) >>
             \o MapLines(Tail(lines))

\* the filter, the map and the sort of getRemoteBranches
ParseBranches(lines) ==
    Sort(MapLines(SelectSeq(lines,
        LAMBDA line : Trim(line) # << >> /\ ~Includes(line, << "H", "E", "A", "D" >>))))

(***************************************************************************)
(* The run, up to the creation of the worktree.                            *)
(***************************************************************************)
\* a run that asks for the branch whatever its argument
InteractiveAlways(name) == TRUE

\* !branchName: no positional argument
Interactive(name) == name = NoString

\* main, configureShell, loadConfig, and the isGitRepository check
CheckRepository ==
    /\ pc = "start"
    /\ \E isRepo \in BOOLEAN :
        /\ cmds' = Append(cmds, Cmd("git rev-parse", << << "-", "-", "g", "i", "t", "-", "d", "i", "r" >> >>))
        /\ IF ~isRepo
           THEN /\ Exit(1, "NotAGitRepository")
                /\ UNCHANGED selectedBranch
           ELSE /\ Running
                /\ IF Interactive(branchName)
                   THEN pc' = "inventory" /\ UNCHANGED selectedBranch
                   ELSE pc' = "path" /\ selectedBranch' = branchName
    /\ UNCHANGED << warnings, config, branchName, typed, foreignRefs, peer, shell, installFrame,
                    gitVars, dirs, tree, branches,
                    worktreePath, originalDir, cwd, classification, envVars,
                    hookPos >>

\* getRemoteBranches(remote) and the check of an empty inventory
GetRemoteBranches ==
    /\ pc = "inventory"
    /\ \E fetchOk \in BOOLEAN, listOk \in BOOLEAN :
        LET fetch == Cmd("git fetch", << remote >>)
            list  == Cmd("git branch", << << "-", "r" >> >>)
            found == ParseBranches(BranchLines(remoteRefs, foreignRefs))
        IN  IF ~fetchOk
            THEN /\ cmds' = Append(cmds, fetch)
                 /\ Exit(1, "InventoryError")
                 /\ UNCHANGED branches
            ELSE IF ~listOk
            THEN /\ cmds' = cmds \o << fetch, list >>
                 /\ Exit(1, "InventoryError")
                 /\ UNCHANGED branches
            ELSE /\ cmds' = cmds \o << fetch, list >>
                 /\ branches' = found
                 /\ IF Len(found) = 0
                    THEN Exit(1, "EmptyInventory")
                    ELSE pc' = "select" /\ Running
    /\ UNCHANGED << warnings, config, branchName, typed, foreignRefs, peer, shell, installFrame,
                    gitVars, dirs, tree,
                    selectedBranch, worktreePath, originalDir, cwd,
                    classification, envVars, hookPos >>

\* the menu of selectBranchInteractive
SelectBranch ==
    /\ pc = "select"
    /\ \/ \* the prompt is cancelled: null is returned
          /\ Exit(0, "cancelled")
          /\ UNCHANGED selectedBranch
       \/ \* a branch of the inventory is selected
          \E k \in 1..Len(branches) :
            /\ branches[k] # CREATE_NEW
            /\ selectedBranch' = branches[k]
            /\ pc' = "path"
            /\ Running
       \/ \* "+ Create new branch" is selected
          /\ pc' = "input"
          /\ Running
          /\ UNCHANGED selectedBranch
    /\ UNCHANGED << warnings, config, branchName, typed, foreignRefs, peer, shell, installFrame,
                    gitVars, dirs, tree, branches,
                    worktreePath, originalDir, cwd, classification, cmds,
                    envVars, hookPos >>

\* a validation that compares the name without the space around it
ValidateTrimmed(value, inventory) ==
    /\ Trim(value) # <<  >>
    /\ ~(\E k \in 1..Len(inventory) : inventory[k] = Trim(value))

\* validate(value) of the "new branch name" prompt: TRUE when accepted
ValidateName(value, inventory) ==
    /\ Trim(value) # << >>
    /\ ~(\E k \in 1..Len(inventory) : inventory[k] = value)

\* the "new branch name" prompt of selectBranchInteractive
InputName ==
    /\ pc = "input"
    /\ \/ \* the prompt is cancelled
          /\ Exit(0, "cancelled")
          /\ UNCHANGED << selectedBranch, typed >>
       \/ \* a name is submitted and rejected: the prompt stays
          \E value \in TypedNames :
            /\ ~ValidateName(value, branches)
            /\ typed' = value
            /\ UNCHANGED << pc, exitCode, outcome, selectedBranch >>
       \/ \* a name is submitted and accepted
          \E value \in TypedNames :
            /\ ValidateName(value, branches)
            /\ typed' = value
            /\ selectedBranch' = value
            /\ pc' = "path"
            /\ Running
    /\ UNCHANGED << warnings, config, branchName, foreignRefs, peer, shell, installFrame,
                    gitVars, dirs, tree, branches,
                    worktreePath, originalDir, cwd, classification, cmds,
                    envVars, hookPos >>

\* a replace without the g flag: the first `/` only
SafeBranchNameFirst(branch) == ReplaceFirst(branch, << "/" >>, << "-" >>)

\* selectedBranch.replace(/\//g, '-')
SafeBranchName(branch) == ReplaceAllChar(branch, "/", << "-" >>)

\* a default path made of the branch name as it is
WorktreePathUnflattened(location, branch) ==
    IF location # NoString
    THEN ReplaceFirst(
             ReplaceFirst(
                 ReplaceFirst(location, << "{", "p", "r", "e", "f", "i", "x", "}" >>, prefix),
                 << "{", "b", "r", "a", "n", "c", "h", "}" >>, branch),
             << "{", "o", "r", "i", "g", "i", "n", "a", "l", "-", "b", "r", "a", "n", "c", "h", "}" >>, branch)
    ELSE PathJoin(<< ".", "." >>, prefix \o << "-" >> \o branch)

\* the worktree path of a branch under a location pattern (NoString: none)
WorktreePath(location, branch) ==
    IF location # NoString
    THEN ReplaceFirst(
             ReplaceFirst(
                 ReplaceFirst(location, << "{", "p", "r", "e", "f", "i", "x", "}" >>, prefix),
                 << "{", "b", "r", "a", "n", "c", "h", "}" >>, SafeBranchName(branch)),
             << "{", "o", "r", "i", "g", "i", "n", "a", "l", "-", "b", "r", "a", "n", "c", "h", "}" >>, branch)
    ELSE PathJoin(<< ".", "." >>, prefix \o << "-" >> \o SafeBranchName(branch))

\* a check that finds no directory
PathExistsNever(path) == FALSE

\* fs.existsSync(path), path being relative to the working directory
PathExists(path) == PathResolve(cwd, path) \in dirs

\* an exit of that check with the code of a success
CollisionExitZero == Exit(0, "PathAlreadyExists")

\* the exit of the check that the worktree directory does not exist yet
CollisionExit == Exit(1, "PathAlreadyExists")

\* the path computation and the check that the directory does not exist
ComputePath ==
    /\ pc = "path"
    /\ worktreePath' = WorktreePath(config.location, selectedBranch)
    /\ IF PathExists(worktreePath')
       THEN /\ CollisionExit
            /\ UNCHANGED originalDir
       ELSE /\ originalDir' = cwd
            /\ pc' = "fetch"
            /\ Running
    /\ UNCHANGED << warnings, config, branchName, typed, foreignRefs, peer, shell, installFrame,
                    gitVars, dirs, tree, branches,
                    selectedBranch, cwd, classification, cmds, envVars, hookPos >>

\* a fetch step that does not look at the option
FetchEnabledAlways(cfg) == TRUE

\* config.git?.fetch !== false
FetchEnabled(cfg) == cfg.fetch # FALSE

\* the fetch before the creation
FetchLatest ==
    /\ pc = "fetch"
    /\ IF FetchEnabled(config)
       THEN \E ok \in BOOLEAN :
              /\ cmds' = Append(cmds, Cmd("git fetch", << remote >>))
              /\ Caught(ok, "create")
       ELSE /\ pc' = "create"
            /\ Running
            /\ UNCHANGED << cmds, warnings >>
    /\ UNCHANGED << config, branchName, typed, foreignRefs, peer, shell, installFrame,
                    gitVars, dirs, tree, selVars, cwd,
                    envVars, hookPos >>

\* branchExists(branch, type, remote): the command and its answer
ShowRef(ref) == Cmd("git show-ref", << << "-", "-", "v", "e", "r", "i", "f", "y" >>, << "-", "-", "q", "u", "i", "e", "t" >>, ref >>)
LocalRef(branch) == << "r", "e", "f", "s", "/", "h", "e", "a", "d", "s", "/" >> \o branch
RemoteRef(branch) == << "r", "e", "f", "s", "/", "r", "e", "m", "o", "t", "e", "s", "/" >> \o remote \o << "/" >> \o branch
RemoteBranch(branch) == remote \o << "/" >> \o branch

(***************************************************************************)
(* The creation of the worktree and the tracking setup.                    *)
(***************************************************************************)
\* a creation step that looks at the remote first
ClassifyRemoteFirst(branch, locals, remotes) ==
    IF branch \in remotes THEN "RemoteExisting"
    ELSE IF branch \in locals THEN "LocalExisting"
    ELSE "New"

\* the branch of the if / else if / else of the creation step
Classify(branch, locals, remotes) ==
    IF branch \in locals THEN "LocalExisting"
    ELSE IF branch \in remotes THEN "RemoteExisting"
    ELSE "New"

\* the branchExists calls the creation step makes before it decides
ClassifyCmds(branch, locals) ==
    IF branch \in locals
    THEN << ShowRef(LocalRef(branch)) >>
    ELSE << ShowRef(LocalRef(branch)), ShowRef(RemoteRef(branch)) >>

\* the start point of the new branch (NoString: no branch is created)
StartPoint(class, branch) ==
    IF class = "LocalExisting" THEN NoString
    ELSE IF class = "RemoteExisting" THEN RemoteBranch(branch)
    ELSE RemoteBranch(defaultBranch)

\* the arguments of `git worktree add`
WorktreeAddArgs(class, path, branch) ==
    IF class = "LocalExisting"
    THEN << path, branch >>
    ELSE << path, << "-", "b" >>, branch, StartPoint(class, branch) >>

\* git accepts no branch name with a space in it
ValidRefName(branch) == branch # <<  >> /\ ~Includes(branch, << " " >>)

\* git refuses `worktree add` when the path exists, `-b <branch>` when
\* <branch> is no valid name, and `-b <branch> <start>` when <start> names
\* nothing
CanAdd(class, path, branch, remotes) ==
    /\ ~PathExists(path)
    /\ class # "LocalExisting" => ValidRefName(branch)
    /\ \/ class = "LocalExisting"
       \/ class = "RemoteExisting" /\ branch \in remotes
       \/ class = "New" /\ defaultBranch \in remotes

\* a catch that reports the failure and lets the run go on
CreationFailureWarned == pc' = "track" /\ Running

\* the catch block of the creation step: process.exit(1)
CreationFailure == Exit(1, "WorktreeCreationError")

\* the try block around `git worktree add`
CreateWorktree ==
    /\ pc = "create"
    /\ LET class == Classify(selectedBranch, localRefs, remoteRefs)
           add   == Cmd("git worktree add",
                        WorktreeAddArgs(class, worktreePath, selectedBranch))
       IN  /\ classification' = class
           /\ cmds' = cmds \o ClassifyCmds(selectedBranch, localRefs) \o << add >>
           /\ \E ok \in BOOLEAN :
                IF ok /\ CanAdd(class, worktreePath, selectedBranch, remoteRefs)
                THEN /\ dirs' = dirs \cup { PathResolve(cwd, worktreePath) }
                     /\ localRefs' = localRefs \cup { selectedBranch }
                     /\ pc' = "track"
                     /\ Running
                ELSE /\ CreationFailure
                     /\ UNCHANGED << dirs, localRefs >>
    /\ UNCHANGED << warnings, config, branchName, typed, foreignRefs, peer, shell, installFrame,
                    remoteRefs, upstream,
                    gitConfig, pushed, tree, branches, selectedBranch,
                    worktreePath, originalDir, cwd, envVars, hookPos >>

\* the three `git config` commands of a new branch, in order
ConfigSettings(branch) ==
    << << << "b", "r", "a", "n", "c", "h", "." >> \o branch \o << ".", "r", "e", "m", "o", "t", "e" >>, remote >>,
       << << "b", "r", "a", "n", "c", "h", "." >> \o branch \o << ".", "m", "e", "r", "g", "e" >>, << "r", "e", "f", "s", "/", "h", "e", "a", "d", "s", "/" >> \o branch >>,
       << << "p", "u", "s", "h", ".", "d", "e", "f", "a", "u", "l", "t" >>, << "s", "i", "m", "p", "l", "e" >> >> >>

\* a tracking step that looks for the default branch on the remote
TracksDefaultBranch(branch, remotes) == defaultBranch \in remotes

\* does the tracking step take its "existing remote branch" side?
TracksRemote(branch, remotes) == branch \in remotes

\* is the new branch pushed after its configuration?
PushesNewBranch(cfg) == cfg.pushNewBranches = TRUE

\* process.chdir(worktreePath) and the try block of the tracking setup.
\* failAt is the first `git config` that fails (0: none), ok the result of
\* `git branch --set-upstream-to` or of `git push`
TrackingSetup ==
    /\ pc = "track"
    /\ LET dir == PathResolve(cwd, worktreePath)
           at(verb, args) == [ verb |-> verb, args |-> args, cwd |-> dir ]
           check == at("git show-ref",
                       << << "-", "-", "v", "e", "r", "i", "f", "y" >>, << "-", "-", "q", "u", "i", "e", "t" >>, RemoteRef(selectedBranch) >>)
           settings == ConfigSettings(selectedBranch)
           configCmd(k) == at("git config", settings[k])
       IN  IF dir \notin dirs
           THEN \* chdir throws
                /\ Exit(1, "ChdirError")
                /\ UNCHANGED << cwd, cmds, warnings, upstream, gitConfig,
                                pushed, remoteRefs >>
           ELSE /\ cwd' = dir
                /\ IF TracksRemote(selectedBranch, remoteRefs)
                   THEN \E ok \in BOOLEAN :
                          /\ cmds' = cmds \o << check,
                                 at("git branch",
                                    << << "-", "-", "s", "e", "t", "-", "u", "p", "s", "t", "r", "e", "a", "m", "-", "t", "o", "=" >> \o RemoteBranch(selectedBranch),
                                       selectedBranch >>) >>
                          /\ upstream' =
                                IF ok
                                THEN { u \in upstream : u[1] # selectedBranch }
                                       \cup { << selectedBranch, RemoteBranch(selectedBranch) >> }
                                ELSE upstream
                          /\ Caught(ok, "env")
                          /\ UNCHANGED << gitConfig, pushed, remoteRefs >>
                   ELSE \E failAt \in 0..Len(settings), ok \in BOOLEAN :
                          LET issued == IF failAt = 0 THEN Len(settings) ELSE failAt
                              done   == IF failAt = 0 THEN Len(settings) ELSE failAt - 1
                              push   == failAt = 0 /\ PushesNewBranch(config)
                          IN  /\ ~push => ok
                              /\ cmds' = cmds \o << check >>
                                   \o [ k \in 1..issued |-> configCmd(k) ]
                                   \o (IF push
                                       THEN << at("git push",
                                                  << << "-", "u" >>, remote, selectedBranch >>) >>
                                       ELSE << >>)
                              /\ gitConfig' =
                                   { c \in gitConfig :
                                       \A k \in 1..done : c[1] # settings[k][1] }
                                   \cup { settings[k] : k \in 1..done }
                              /\ IF push /\ ok
                                 THEN /\ pushed' = pushed \cup { selectedBranch }
                                      /\ remoteRefs' = remoteRefs \cup { selectedBranch }
                                      /\ upstream' =
                                           { u \in upstream : u[1] # selectedBranch }
                                           \cup { << selectedBranch,
                                                     RemoteBranch(selectedBranch) >> }
                                 ELSE UNCHANGED << pushed, remoteRefs, upstream >>
                              /\ Caught(failAt = 0 /\ ok, "env")
    /\ UNCHANGED << config, branchName, typed, foreignRefs, peer, shell, installFrame,
                    localRefs, dirs, tree, selVars,
                    envVars, hookPos >>

(***************************************************************************)
(* The copy of the env files.                                              *)
(***************************************************************************)
\* envFile.replace(originalDir + '/', '')
RelativePath(envFile, root) == ReplaceFirst(envFile, root \o << "/" >>, <<  >>)

\* join(process.cwd(), relativePath)
TargetPath(envFile, root, workdir) == PathJoin(workdir, RelativePath(envFile, root))

\* the call of findEnvFiles, or the skip of the whole step
FindEnvFiles ==
    /\ pc = "env"
    /\ IF config.copy # FALSE
       THEN \E findOk \in [ 1..Len(config.patterns) -> BOOLEAN ] :
              /\ allFiles' = Dedupe(FindAll(tree, originalDir, config.patterns, findOk))
              /\ envFiles' = findEnvFiles(tree, originalDir, config.patterns,
                                          config.exclude, findOk)
              /\ cmds' = cmds \o
                    [ k \in 1..Len(config.patterns) |->
                        Cmd("find", << originalDir, << "-", "n", "a", "m", "e" >>, config.patterns[k],
                                       << "-", "t", "y", "p", "e" >>, << "f" >> >>) ]
       ELSE UNCHANGED << allFiles, envFiles, cmds >>
    /\ pc' = IF Len(envFiles') >= envPos THEN "copy" ELSE "install"
    /\ Running
    /\ UNCHANGED << warnings, config, branchName, typed, foreignRefs, peer, shell, installFrame,
                    gitVars, dirs, tree, selVars,
                    cwd, envPos, copied, hookPos >>

\* one turn of the copy loop: mkdir -p, then cp
CopyEnvFile ==
    /\ pc = "copy"
    /\ LET envFile    == envFiles[envPos]
           targetPath == TargetPath(envFile, originalDir, cwd)
           targetDir  == Dirname(targetPath)
           mkdir      == Cmd("mkdir", << << "-", "p" >>, targetDir >>)
           cp         == Cmd("cp", << envFile, targetPath >>)
       IN  \/ \* mkdir fails: the error leaves createWorktree
              /\ cmds' = Append(cmds, mkdir)
              /\ Exit(1, "FileCopyError")
              /\ UNCHANGED << dirs, copied, envPos >>
           \/ \* cp fails: the error leaves createWorktree
              /\ cmds' = cmds \o << mkdir, cp >>
              /\ dirs' = dirs \cup { targetDir }
              /\ Exit(1, "FileCopyError")
              /\ UNCHANGED << copied, envPos >>
           \/ \* both succeed
              /\ cmds' = cmds \o << mkdir, cp >>
              /\ dirs' = dirs \cup { targetDir }
              /\ copied' = Append(copied, [ from |-> envFile, to |-> targetPath ])
              /\ envPos' = envPos + 1
              /\ pc' = IF Len(envFiles) >= envPos' THEN "copy" ELSE "install"
              /\ Running
    /\ UNCHANGED << warnings, config, branchName, typed, foreignRefs, peer, shell, installFrame,
                    gitVars, tree, selVars, cwd,
                    allFiles, envFiles, hookPos >>

(***************************************************************************)
(* Dependencies, editor, hooks.                                            *)
(***************************************************************************)
\* detectPackageManager(dir), from the lock files dir holds
DetectPackageManager(files) ==
    IF << "p", "n", "p", "m", "-", "l", "o", "c", "k", ".", "y", "a", "m", "l" >> \in files THEN << "p", "n", "p", "m" >>
    ELSE IF << "y", "a", "r", "n", ".", "l", "o", "c", "k" >> \in files THEN << "y", "a", "r", "n" >>
    ELSE IF << "p", "a", "c", "k", "a", "g", "e", "-", "l", "o", "c", "k", ".", "j", "s", "o", "n" >> \in files THEN << "n", "p", "m" >>
    ELSE IF << "b", "u", "n", ".", "l", "o", "c", "k", "b" >> \in files THEN << "b", "u", "n" >>
    ELSE << "n", "p", "m" >>

\* the command of the switch of installDependencies
InstallCommandLine(packageManager) ==
    IF packageManager = << "p", "n", "p", "m" >> THEN << << "p", "n", "p", "m" >>, << "i", "n", "s", "t", "a", "l", "l" >>, << "-", "-", "f", "r", "o", "z", "e", "n", "-", "l", "o", "c", "k", "f", "i", "l", "e" >> >>
    ELSE IF packageManager = << "y", "a", "r", "n" >> THEN << << "y", "a", "r", "n" >>, << "i", "n", "s", "t", "a", "l", "l" >>, << "-", "-", "f", "r", "o", "z", "e", "n", "-", "l", "o", "c", "k", "f", "i", "l", "e" >> >>
    ELSE IF packageManager = << "b", "u", "n" >> THEN << << "b", "u", "n" >>, << "i", "n", "s", "t", "a", "l", "l" >>, << "-", "-", "f", "r", "o", "z", "e", "n", "-", "l", "o", "c", "k", "f", "i", "l", "e" >> >>
    ELSE << << "n", "p", "m" >>, << "c", "i" >> >>

\* a command run by zx: in $.cwd when it is set
ShellCmd(verb, args) ==
    [ verb |-> verb, args |-> args,
      cwd |-> IF shell.cwd # NoString THEN shell.cwd ELSE cwd ]

\* a finally block that runs after a success only
RestoreOnSuccess(sh, frame) ==
    IF frame.thrown THEN sh
    ELSE IF frame.custom
    THEN [ sh EXCEPT !.verbose = frame.originalVerbose ]
    ELSE [ verbose |-> frame.originalVerbose, cwd |-> frame.originalCwd ]

\* the finally blocks of the install step: $ gets back what was saved
Restore(sh, frame) ==
    IF frame.custom
    THEN [ sh EXCEPT !.verbose = frame.originalVerbose ]
    ELSE [ verbose |-> frame.originalVerbose, cwd |-> frame.originalCwd ]

\* an install failure that is reported and lets the run go on
InstallFailureWarned == pc' = "editor" /\ Running

\* the install error leaves createWorktree: main's catch, process.exit(1)
InstallFailure == Exit(1, "InstallError")

\* the entry of the install step: the package manager is chosen, the
\* settings of $ are saved and changed
InstallDependencies ==
    /\ pc = "install"
    /\ IF config.install # FALSE
       THEN LET packageManager ==
                    IF config.force # NoString THEN config.force
                    ELSE DetectPackageManager(LockFilesOf(selectedBranch))
            IN  /\ installFrame' =
                      [ entered |-> TRUE,
                        custom |-> config.command # NoString,
                        packageManager |-> packageManager,
                        originalVerbose |-> shell.verbose,
                        originalCwd |-> shell.cwd,
                        thrown |-> FALSE ]
                /\ shell' = IF config.command # NoString
                            THEN [ shell EXCEPT !.verbose = TRUE ]
                            ELSE [ verbose |-> TRUE, cwd |-> cwd ]
                /\ pc' = "installing"
       ELSE /\ pc' = "editor"
            /\ UNCHANGED << installFrame, shell >>
    /\ Running
    /\ UNCHANGED << warnings, config, branchName, typed, foreignRefs, peer,
                    gitVars, dirs, tree, selVars, cwd, cmds, envVars, hookPos >>

\* the body of the try block: the custom command, or pwd and the install
\* command of the package manager
RunInstall ==
    /\ pc = "installing"
    /\ \E ok \in BOOLEAN :
         /\ cmds' = IF installFrame.custom
                    THEN Append(cmds, ShellCmd("install", Split(config.command, " ")))
                    ELSE cmds \o << ShellCmd("pwd", << >>),
                                    ShellCmd("install",
                                        InstallCommandLine(installFrame.packageManager)) >>
         /\ installFrame' = [ installFrame EXCEPT !.thrown = ~ok ]
    /\ pc' = "installed"
    /\ Running
    /\ UNCHANGED << warnings, config, branchName, typed, foreignRefs, peer,
                    shell, gitVars, dirs, tree, selVars, cwd, envVars, hookPos >>

\* the finally block, and what follows it
InstallFinally ==
    /\ pc = "installed"
    /\ shell' = Restore(shell, installFrame)
    /\ IF installFrame.thrown
       THEN InstallFailure
       ELSE pc' = "editor" /\ Running
    /\ UNCHANGED << warnings, config, branchName, typed, foreignRefs, peer,
                    installFrame, gitVars, dirs, tree, selVars, cwd, cmds,
                    envVars, hookPos >>

\* a loop that runs the first hook only
AfterHookFirstOnly(pos) ==
    IF pos = 1 /\ Len(config.postCreate) >= 1 THEN "hooks" ELSE "finish"

\* where the run goes after the editor step and after each hook
AfterHook(pos) ==
    IF Len(config.postCreate) >= pos THEN "hooks" ELSE "finish"

\* the launch of the editor
OpenEditor ==
    /\ pc = "editor"
    /\ IF config.open # FALSE
       THEN \E ok \in BOOLEAN :
              /\ cmds' = Append(cmds,
                    Cmd("code", << PathResolve(originalDir, worktreePath) >>))
              /\ Caught(ok, AfterHook(hookPos))
       ELSE /\ pc' = AfterHook(hookPos)
            /\ Running
            /\ UNCHANGED << cmds, warnings >>
    /\ UNCHANGED << config, branchName, typed, foreignRefs, peer, shell, installFrame,
                    gitVars, dirs, tree, selVars, cwd,
                    envVars, hookPos >>

\* one turn of the loop over hooks.postCreate
RunHook ==
    /\ pc = "hooks"
    /\ \E ok \in BOOLEAN :
         /\ cmds' = Append(cmds, Cmd("hook", Split(config.postCreate[hookPos], " ")))
         /\ Caught(ok, AfterHook(hookPos + 1))
    /\ hookPos' = hookPos + 1
    /\ UNCHANGED << config, branchName, typed, foreignRefs, peer, shell, installFrame,
                    gitVars, dirs, tree, selVars, cwd,
                    envVars >>

\* the last lines of createWorktree: the script ends
Finish ==
    /\ pc = "finish"
    /\ Exit(0, "ok")
    /\ UNCHANGED << warnings, config, branchName, typed, foreignRefs, peer, shell, installFrame,
                    gitVars, dirs, tree, selVars,
                    cwd, cmds, envVars, hookPos >>

(***************************************************************************)
(* Specifications.                                                         *)
(***************************************************************************)
\* what may exist beside the repository before the run: nothing, or the
\* directory the default location gives the worktree of f/x
ExistingDirs ==
    { {}, { PathResolve(StartDir, WorktreePath(NoString, FeatureX)) } }

\* the state when the script starts
Init ==
    /\ pc = "start"
    /\ exitCode = 0
    /\ outcome = "running"
    /\ warnings = 0
    /\ config \in Configs
    /\ branchName \in BranchNames \cup { NoString }
    /\ localRefs \in SUBSET RefNames
    /\ remoteRefs \in SUBSET RefNames
    /\ upstream = {}
    /\ gitConfig = {}
    /\ pushed = {}
    /\ dirs \in { d \cup { StartDir } : d \in ExistingDirs }
    /\ tree = << FileUniverse[1] >>
    /\ branches = << >>
    /\ selectedBranch = NoString
    /\ worktreePath = NoString
    /\ originalDir = NoString
    /\ cwd = StartDir
    /\ classification = "none"
    /\ cmds = << >>
    /\ allFiles = << >>
    /\ envFiles = << >>
    /\ envPos = 1
    /\ copied = << >>
    /\ hookPos = 1
    /\ typed = NoString
    /\ foreignRefs = {}
    /\ peer = NoPeer
    /\ shell = InitialShell
    /\ installFrame = NoFrame

Next ==
    \/ CheckRepository
    \/ GetRemoteBranches
    \/ SelectBranch
    \/ InputName
    \/ ComputePath
    \/ FetchLatest
    \/ CreateWorktree
    \/ TrackingSetup
    \/ FindEnvFiles
    \/ CopyEnvFile
    \/ InstallDependencies
    \/ RunInstall
    \/ InstallFinally
    \/ OpenEditor
    \/ RunHook
    \/ Finish

Spec == Init /\ [][Next]_vars

(***************************************************************************)
(* The env-file step on its own: the state of a direct run for f/x (absent *)
(* locally, present on the remote, default options) when it reaches the    *)
(* copy of the env files, with the source tree and the include and exclude *)
(* patterns varied.                                                        *)
(***************************************************************************)
EnvWorktreePath == WorktreePath(NoString, FeatureX)
EnvWorktreeDir == PathResolve(StartDir, EnvWorktreePath)

EnvCmds ==
    LET in(dir, verb, args) == [ verb |-> verb, args |-> args, cwd |-> dir ]
        refArgs(ref) == << << "-", "-", "v", "e", "r", "i", "f", "y" >>, << "-", "-", "q", "u", "i", "e", "t" >>, ref >>
    IN  << in(StartDir, "git rev-parse", << << "-", "-", "g", "i", "t", "-", "d", "i", "r" >> >>),
           in(StartDir, "git fetch", << remote >>),
           in(StartDir, "git show-ref", refArgs(LocalRef(FeatureX))),
           in(StartDir, "git show-ref", refArgs(RemoteRef(FeatureX))),
           in(StartDir, "git worktree add",
              WorktreeAddArgs("RemoteExisting", EnvWorktreePath, FeatureX)),
           in(EnvWorktreeDir, "git show-ref", refArgs(RemoteRef(FeatureX))),
           in(EnvWorktreeDir, "git branch",
              << << "-", "-", "s", "e", "t", "-", "u", "p", "s", "t", "r", "e", "a", "m", "-", "t", "o", "=" >> \o RemoteBranch(FeatureX), FeatureX >>) >>

InitEnv ==
    /\ pc = "env"
    /\ exitCode = 0
    /\ outcome = "running"
    /\ warnings = 0
    /\ config \in EnvConfigs
    /\ branchName = FeatureX
    /\ localRefs = { FeatureX }
    /\ remoteRefs = { FeatureX, defaultBranch }
    /\ upstream = { << FeatureX, RemoteBranch(FeatureX) >> }
    /\ gitConfig = {}
    /\ pushed = {}
    /\ dirs = { StartDir, EnvWorktreeDir }
    /\ tree \in Trees
    /\ branches = << >>
    /\ selectedBranch = FeatureX
    /\ worktreePath = EnvWorktreePath
    /\ originalDir = StartDir
    /\ cwd = EnvWorktreeDir
    /\ classification = "RemoteExisting"
    /\ cmds = EnvCmds
    /\ allFiles = << >>
    /\ envFiles = << >>
    /\ envPos = 1
    /\ copied = << >>
    /\ hookPos = 1
    /\ typed = NoString
    /\ foreignRefs = {}
    /\ peer = NoPeer
    /\ shell = InitialShell
    /\ installFrame = NoFrame

NextEnv ==
    \/ FindEnvFiles
    \/ CopyEnvFile

SpecEnv == InitEnv /\ [][NextEnv]_vars


(***************************************************************************)
(* The inventory on its own: the state of an interactive run when it calls *)
(* getRemoteBranches, in a repository that may have a second remote and a  *)
(* branch with HEAD in its name.                                           *)
(***************************************************************************)
InitInventory ==
    /\ pc = "inventory"
    /\ exitCode = 0
    /\ outcome = "running"
    /\ warnings = 0
    /\ config = DefaultConfig
    /\ branchName = NoString
    /\ localRefs \in SUBSET RefNames
    /\ remoteRefs \in SUBSET (RefNames \cup { FixHead })
    /\ foreignRefs \in SUBSET ForeignNames
    /\ upstream = {}
    /\ gitConfig = {}
    /\ pushed = {}
    /\ dirs = { StartDir }
    /\ tree = << FileUniverse[1] >>
    /\ branches = << >>
    /\ selectedBranch = NoString
    /\ worktreePath = NoString
    /\ originalDir = NoString
    /\ cwd = StartDir
    /\ classification = "none"
    /\ cmds = << [ verb |-> "git rev-parse", args |-> << << "-", "-", "g", "i", "t", "-", "d", "i", "r" >> >>,
                   cwd |-> StartDir ] >>
    /\ allFiles = << >>
    /\ envFiles = << >>
    /\ envPos = 1
    /\ copied = << >>
    /\ hookPos = 1
    /\ typed = NoString
    /\ peer = NoPeer
    /\ shell = InitialShell
    /\ installFrame = NoFrame

NextInventory ==
    \/ GetRemoteBranches
    \/ SelectBranch
    \/ InputName

SpecInventory == InitInventory /\ [][NextInventory]_vars
(***************************************************************************)
(* Helpers of the properties.                                              *)
(***************************************************************************)
Range(s) == { s[k] : k \in 1..Len(s) }

\* the commands of the run so far that ran `verb`
Issued(verb) == SelectSeq(cmds, LAMBDA c : c.verb = verb)

\* the directory of the worktree of this run
WorktreeDir == PathResolve(StartDir, worktreePath)

\* a command that changes the repository, its configuration or the remote
Mutates(c) ==
    \/ c.verb \in { "git fetch", "git worktree add", "git config", "git push" }
    \/ c.verb = "git branch" /\ c.args # << << "-", "r" >> >>

\* `git config branch.<name>.<key> ...`
IsBranchConfig(c) ==
    c.verb = "git config" /\ StartsWithAt(c.args[1], << "b", "r", "a", "n", "c", "h", "." >>, 1)

\* the creation step has run and `git worktree add` succeeded
Created ==
    /\ classification # "none"
    /\ outcome # "WorktreeCreationError"

\* the tracking step has run
Tracked ==
    /\ Created
    /\ pc # "track"
    /\ outcome # "ChdirError"

(***************************************************************************)
(* C1: the creation step issues exactly one `git worktree add`, and its    *)
(* form is decided local-first: an existing local branch is attached       *)
(* without -b and without a new ref, also when the remote has the branch   *)
(* too; otherwise the branch is created from <remote>/<branch> when that   *)
(* exists, and otherwise from <remote>/<defaultBranch>.                    *)
(***************************************************************************)
C1_ExpectedAdd ==
    IF selectedBranch \in localRefs
    THEN << worktreePath, selectedBranch >>
    ELSE IF selectedBranch \in remoteRefs
    THEN << worktreePath, << "-", "b" >>, selectedBranch, << "o", "r", "i", "g", "i", "n", "/" >> \o selectedBranch >>
    ELSE << worktreePath, << "-", "b" >>, selectedBranch, << "o", "r", "i", "g", "i", "n", "/", "m", "a", "i", "n" >> >>

C1_CreationStep ==
    pc = "create" =>
        /\ Len(Issued("git worktree add")) = 0
        /\ Len(Issued("git worktree add")') = 1
        /\ Issued("git worktree add")'[1].args = C1_ExpectedAdd
        /\ selectedBranch \in localRefs => localRefs' = localRefs

\* C1: at most one `git worktree add` is ever issued, exactly one once the
\* creation step has run, and the step gives it the local-first form
C1_LocalFirst ==
    /\ [](Len(Issued("git worktree add")) <= 1)
    /\ [](classification # "none" => Len(Issued("git worktree add")) = 1)
    /\ [][C1_CreationStep]_vars

\* a branch that exists locally and on the remote has been attached
C1_Witness ==
    /\ pc = "track"
    /\ classification = "LocalExisting"
    /\ selectedBranch \in remoteRefs
    /\ Issued("git worktree add")[1].args = << worktreePath, selectedBranch >>

(***************************************************************************)
(* C2: a run that finds the computed worktree path on disk ends with a     *)
(* non-zero exit code and has issued no command that changes Git state.    *)
(***************************************************************************)
\* the computed path exists and was not made by this run
C2_Collision ==
    /\ worktreePath # NoString
    /\ classification = "none"
    /\ WorktreeDir \in dirs

\* C2 as stated: a run that found its worktree path on disk has ended with a
\* non-zero exit code and has issued no command that changes Git state
C2_CollisionMutatesNothing ==
    C2_Collision =>
        /\ pc = "done"
        /\ exitCode # 0
        /\ \A k \in 1..Len(cmds) : ~Mutates(cmds[k])

\* C2, amended: a run that found its worktree path on disk has ended at the
\* path check with a non-zero exit code; the only command changing Git state
\* it can have issued is the fetch of getRemoteBranches, in interactive mode,
\* before the listing of the branches
C2_CollisionStopsRun ==
    C2_Collision =>
        /\ pc = "done"
        /\ exitCode # 0
        /\ outcome = "PathAlreadyExists"
        /\ \A k \in 1..Len(cmds) :
              Mutates(cmds[k]) =>
                  /\ branchName = NoString
                  /\ cmds[k].verb = "git fetch"
                  /\ k < Len(cmds)
                  /\ cmds[k + 1] = [ verb |-> "git branch", args |-> << << "-", "r" >> >>,
                                     cwd |-> StartDir ]
                  /\ Len(Issued("git fetch")) = 1

\* an interactive run has stopped at an existing path, after its fetch
C2_Witness ==
    /\ C2_Collision
    /\ branchName = NoString
    /\ Len(Issued("git fetch")) = 1
    /\ exitCode = 1

(***************************************************************************)
(* C3: the tracking step writes the branch configuration, and pushes, only *)
(* for a branch the creation step classified New (and pushes only when     *)
(* git.pushNewBranches is set); for a branch classified LocalExisting it   *)
(* writes no branch configuration and pushes nothing.                      *)
(***************************************************************************)
\* C3: branch configuration and push are issued only for a branch classified
\* New, the push only when git.pushNewBranches is set
C3_PostStepFollowsClassification ==
    \A k \in 1..Len(cmds) :
        /\ IsBranchConfig(cmds[k]) \/ cmds[k].verb = "git push"
              => classification = "New"
        /\ cmds[k].verb = "git push" => config.pushNewBranches

(***************************************************************************)
(* C4: for a branch that is absent locally and present on the remote, a    *)
(* run whose `git worktree add` succeeds sets the upstream of the new      *)
(* branch to <remote>/<branch>, after the worktree directory exists and    *)
(* with that directory as the working directory.                           *)
(***************************************************************************)
C4_SetUpstreamCmd ==
    [ verb |-> "git branch",
      args |-> << << "-", "-", "s", "e", "t", "-", "u", "p", "s", "t", "r", "e", "a", "m", "-", "t", "o", "=", "o", "r", "i", "g", "i", "n", "/" >> \o selectedBranch, selectedBranch >>,
      cwd  |-> WorktreeDir ]

\* the `git branch` commands of the run other than the listing `git branch -r`
C4_BranchCmds ==
    SelectSeq(cmds, LAMBDA c : c.verb = "git branch" /\ c.args # << << "-", "r" >> >>)

\* C4 as stated: after the tracking step of a branch created from the
\* remote, the upstream of the branch is <remote>/<branch>
C4_UpstreamIsSet ==
    Tracked /\ classification = "RemoteExisting" =>
        << selectedBranch, << "o", "r", "i", "g", "i", "n", "/" >> \o selectedBranch >> \in upstream

\* the tracking step of a branch created from the remote: the command is
\* issued in the worktree, after its creation; the upstream is set unless the
\* command fails, which is a warning
C4_TrackingStep ==
    pc = "track" /\ classification = "RemoteExisting" =>
        /\ WorktreeDir \in dirs
        /\ cwd' = WorktreeDir
        /\ C4_BranchCmds' = << C4_SetUpstreamCmd >>
        /\ cmds'[Len(cmds')] = C4_SetUpstreamCmd
        /\ \E k \in 1..Len(cmds) : cmds[k].verb = "git worktree add"
        /\ \/ << selectedBranch, << "o", "r", "i", "g", "i", "n", "/" >> \o selectedBranch >> \in upstream'
           \/ warnings' = warnings + 1 /\ upstream' = upstream
        /\ pc' = "env"

\* C4, amended: for a branch absent locally and present on the remote, a run
\* whose `git worktree add` succeeds issues `git branch --set-upstream-to=
\* <remote>/<branch> <branch>` once, after the worktree directory exists and
\* with that directory as working directory, and the upstream is set whenever
\* that command succeeds
C4_UpstreamCommand ==
    /\ [](classification = "RemoteExisting" /\ Created /\ pc # "track"
            => Tracked /\ C4_BranchCmds = << C4_SetUpstreamCmd >>)
    /\ [][C4_TrackingStep]_vars

\* the upstream of a branch created from the remote has been set
C4_Witness ==
    /\ pc = "env"
    /\ classification = "RemoteExisting"
    /\ upstream = { << selectedBranch, << "o", "r", "i", "g", "i", "n", "/" >> \o selectedBranch >> }
    /\ cwd = WorktreeDir

(***************************************************************************)
(* C5: a run ends with exit code 0 when it completed all steps or when the *)
(* interactive selection was cancelled, and with a non-zero exit code when *)
(* it is not in a repository, the inventory is empty, the path exists or   *)
(* `git worktree add` failed; no fatal error ends with exit code 0.        *)
(***************************************************************************)
\* every step of the sequence has been carried out
C5_AllStepsDone ==
    /\ WorktreeDir \in dirs
    /\ cwd = WorktreeDir
    /\ Len(Issued("git worktree add")) = 1
    /\ config.copy => Len(copied) = Len(envFiles) /\ Len(Issued("find")) = Len(config.patterns)
    /\ config.install => Len(Issued("install")) = 1
    /\ config.open => Len(Issued("code")) = 1
    /\ Len(Issued("hook")) = Len(config.postCreate)

\* the selection was cancelled: no branch was chosen
C5_Cancelled ==
    /\ branchName = NoString
    /\ selectedBranch = NoString
    /\ Len(branches) > 0
    /\ Len(cmds) = Len(<< "rev-parse", "fetch", "branch -r" >>)

\* C5: a finished run has exit code 0 exactly when it completed all steps or
\* was cancelled at the selection; every fatal ending has a non-zero code
C5_ExitCodes ==
    pc = "done" =>
        /\ exitCode \in { 0, 1 }
        /\ exitCode = 0 <=> outcome \in { "ok", "cancelled" }
        /\ outcome = "ok" <=> exitCode = 0 /\ C5_AllStepsDone
        /\ outcome = "cancelled" <=> exitCode = 0 /\ C5_Cancelled
        \* not a repository: the only command was `git rev-parse`
        /\ Len(cmds) = 1 /\ worktreePath = NoString
              => exitCode # 0 /\ outcome = "NotAGitRepository"
        \* interactive mode and nothing to select from
        /\ branchName = NoString /\ branches = << >> /\ Len(cmds) > 1 => exitCode # 0
        \* the path was computed and the creation step never ran
        /\ worktreePath # NoString /\ classification = "none"
              => exitCode # 0 /\ outcome = "PathAlreadyExists"
        \* `git worktree add` was issued and made no directory
        /\ classification # "none" /\ WorktreeDir \notin dirs
              => exitCode # 0 /\ outcome = "WorktreeCreationError"

\* a run that stopped at an existing path, with exit code 1
C5_Witness ==
    /\ pc = "done"
    /\ outcome = "PathAlreadyExists"
    /\ exitCode = 1
    /\ WorktreeDir \in dirs

(***************************************************************************)
(* C6: when the copy of one env file fails, the error is reported for that *)
(* file and every other file of the Env File Set is still copied.          *)
(***************************************************************************)
\* C6: after a copy error every env file but the failing one has been copied
C6_CopyErrorSkipsOneFile ==
    outcome = "FileCopyError" =>
        \A k \in 1..Len(envFiles) :
            k # envPos => \E j \in 1..Len(copied) : copied[j].from = envFiles[k]

(***************************************************************************)
(* C7: a failure of the fetch before the creation, of a tracking command,  *)
(* of the auto-push, of the editor launch or of a hook does not end the    *)
(* run: the step after it is the next to run, and the run can still end    *)
(* with exit code 0.                                                       *)
(***************************************************************************)
C7_StepAfter ==
    CASE pc = "fetch"  -> { "create" }
      [] pc = "track"  -> { "env" }
      [] pc = "editor" -> { "hooks", "finish" }
      [] pc = "hooks"  -> { "hooks", "finish" }
      [] OTHER         -> {}

C7_OptionalStep ==
    /\ pc \in { "fetch", "editor", "hooks" } \/ (pc = "track" /\ WorktreeDir \in dirs)
          => /\ pc' \in C7_StepAfter
             /\ exitCode' = exitCode
             /\ outcome' = "running"
             /\ warnings' \in { warnings, warnings + 1 }
    /\ warnings' # warnings
          => pc \in { "fetch", "track", "editor", "hooks" }

\* C7: an optional step never ends the run, whether its command fails or
\* not: the run goes to the step after it, which can be taken
C7_NonFatal ==
    /\ [](pc \in { "create", "env", "hooks", "finish" } => ENABLED Next)
    /\ [][C7_OptionalStep]_vars

\* a run in which the fetch, the push, the editor and a hook failed has
\* ended with exit code 0
C7_Witness ==
    /\ pc = "done"
    /\ exitCode = 0
    /\ Len(Issued("git fetch")) = 1
    /\ Len(Issued("git push")) = 1
    /\ pushed = {}
    /\ Len(Issued("code")) = 1
    /\ Len(Issued("hook")) = 1
    /\ warnings = Len(<< "fetch", "push", "code", "hook" >>)

(***************************************************************************)
(* C8: findEnvFiles removes a found file exactly when its whole basename   *)
(* matches an exclude pattern as a glob (`*`: any run of characters, any   *)
(* other character: itself).                                               *)
(***************************************************************************)
\* C8: a found file is removed exactly when an exclude pattern matches its
\* whole basename as a glob
C8_ExcludeIsGlobOnBasename ==
    pc # "env" =>
        \A f \in Range(allFiles) :
            f \notin Range(envFiles)
                <=> \E k \in 1..Len(config.exclude) :
                        GlobMatch(config.exclude[k], Basename(f))

(***************************************************************************)
(* C9: after an env migration without copy errors the files written are    *)
(* exactly the files <worktree root>/rel(f) for f in the Env File Set:     *)
(* each one is copied once, also when several include patterns match it,   *)
(* and nothing is written outside the worktree root.                       *)
(***************************************************************************)
\* the path of f relative to the source root: what follows "<root>/"
C9_Rel(f) == SubSeq(f, Len(StartDir) + 2, Len(f))

\* the files of the tree an include pattern matches, the excluded ones left out
C9_Matching ==
    { f \in Range(tree) :
        /\ SubSeq(f, 1, Len(StartDir) + 1) = StartDir \o << "/" >>
        /\ \E k \in 1..Len(config.patterns) : GlobMatch(config.patterns[k], Basename(f))
        /\ f \in Range(envFiles) }

\* C9: when the copy loop has ended without an error, every file of the Env
\* File Set has been copied once, to its relative path below the worktree
\* root, and nothing else has been written
C9_MigrationMirrorsTree ==
    pc = "install" /\ config.copy =>
        /\ Range(envFiles) = C9_Matching
        /\ { c.to : c \in Range(copied) }
              = { WorktreeDir \o << "/" >> \o C9_Rel(f) : f \in Range(envFiles) }
        /\ \A c \in Range(copied) : c.to = WorktreeDir \o << "/" >> \o C9_Rel(c.from)
        /\ \A c \in Range(copied) :
              SubSeq(c.to, 1, Len(WorktreeDir) + 1) = WorktreeDir \o << "/" >>
        /\ Len(copied) = Cardinality(Range(envFiles))
        /\ \A i, j \in 1..Len(copied) : copied[i].from = copied[j].from => i = j

\* a file that two include patterns match has been copied, once
C9_Witness ==
    /\ pc = "install"
    /\ Len(config.patterns) > 1
    /\ \E f \in Range(envFiles) :
          \A k \in 1..Len(config.patterns) : GlobMatch(config.patterns[k], Basename(f))
    /\ Len(copied) > 1
    /\ Len(copied) = Len(envFiles)

(***************************************************************************)
(* C10: the default worktree path is ../<prefix>-<safe>, <safe> being the  *)
(* branch name with every `/` replaced by `-`, and every Git command of    *)
(* the run names the branch as it was given.                               *)
(***************************************************************************)
\* s with a `-` wherever it has a `/`
C10_Safe(s) == [ i \in 1..Len(s) |-> IF s[i] = "/" THEN "-" ELSE s[i] ]

\* the branch of a Git command is the selected one, unmodified
C10_NamesBranch(c) ==
    CASE c.verb = "git show-ref" ->
            c.args[Len(c.args)] \in { << "r", "e", "f", "s", "/", "h", "e", "a", "d", "s", "/" >> \o selectedBranch,
                                      << "r", "e", "f", "s", "/", "r", "e", "m", "o", "t", "e", "s", "/", "o", "r", "i", "g", "i", "n", "/" >> \o selectedBranch }
      [] c.verb = "git worktree add" ->
            \/ c.args = << worktreePath, selectedBranch >>
            \/ /\ Len(c.args) = Len(<< "path", "-b", "branch", "start" >>)
               /\ c.args[1] = worktreePath
               /\ c.args[3] = selectedBranch
               /\ c.args[4] \in { << "o", "r", "i", "g", "i", "n", "/" >> \o selectedBranch, << "o", "r", "i", "g", "i", "n", "/", "m", "a", "i", "n" >> }
      [] c.verb = "git branch" ->
            \/ c.args = << << "-", "r" >> >>
            \/ c.args = << << "-", "-", "s", "e", "t", "-", "u", "p", "s", "t", "r", "e", "a", "m", "-", "t", "o", "=", "o", "r", "i", "g", "i", "n", "/" >> \o selectedBranch, selectedBranch >>
      [] c.verb = "git config" ->
            c.args \in { << << "b", "r", "a", "n", "c", "h", "." >> \o selectedBranch \o << ".", "r", "e", "m", "o", "t", "e" >>, << "o", "r", "i", "g", "i", "n" >> >>,
                         << << "b", "r", "a", "n", "c", "h", "." >> \o selectedBranch \o << ".", "m", "e", "r", "g", "e" >>,
                            << "r", "e", "f", "s", "/", "h", "e", "a", "d", "s", "/" >> \o selectedBranch >>,
                         << << "p", "u", "s", "h", ".", "d", "e", "f", "a", "u", "l", "t" >>, << "s", "i", "m", "p", "l", "e" >> >> }
      [] c.verb = "git push" ->
            c.args = << << "-", "u" >>, << "o", "r", "i", "g", "i", "n" >>, selectedBranch >>
      [] OTHER -> TRUE

\* C10: the default path is ../assurix-<safe> with no `/` in its directory
\* name, and every Git command names the selected branch unmodified
C10_SafePathOriginalRefs ==
    /\ worktreePath # NoString /\ config.location = NoString =>
          /\ worktreePath = << ".", ".", "/", "a", "s", "s", "u", "r", "i", "x", "-" >> \o C10_Safe(selectedBranch)
          /\ ~Includes(C10_Safe(selectedBranch), << "/" >>)
          /\ Basename(worktreePath) = << "a", "s", "s", "u", "r", "i", "x", "-" >> \o C10_Safe(selectedBranch)
    /\ \A k \in 1..Len(cmds) : C10_NamesBranch(cmds[k])

\* the worktree of f/x/y has been made at ../assurix-f-x-y, its branch pushed
C10_Witness ==
    /\ selectedBranch = << "f", "/", "x", "/", "y" >>
    /\ worktreePath = << ".", ".", "/", "a", "s", "s", "u", "r", "i", "x", "-", "f", "-", "x", "-", "y" >>
    /\ classification = "New"
    /\ pushed = { << "f", "/", "x", "/", "y" >> }

(***************************************************************************)
(* C11: at the "new branch name" prompt a submitted name is rejected, and  *)
(* the prompt stays, whenever it is empty, made of white space only or an  *)
(* entry of the inventory; the name selectBranchInteractive returns is     *)
(* not empty, not in the inventory, and exactly the name submitted.        *)
(***************************************************************************)
\* a name with nothing but spaces in it
C11_Blank(name) == \A k \in 1..Len(name) : name[k] = " "

\* a name the prompt has to reject
C11_Rejected(name) == C11_Blank(name) \/ name \in Range(branches)

\* one submission at the prompt
C11_Submission ==
    pc = "input" /\ pc' # "done" =>
        IF C11_Rejected(typed')
        THEN pc' = "input" /\ selectedBranch' = selectedBranch
        ELSE pc' = "path" /\ selectedBranch' = typed'

\* C11: submissions are rejected or accepted as stated, and a name that came
\* from the prompt is the accepted submission, unchanged
C11_PromptValidates ==
    /\ [][C11_Submission]_vars
    /\ [](typed # NoString /\ pc \notin { "input", "done" }
            => selectedBranch = typed /\ ~C11_Rejected(typed))

\* a name that differs from an inventory entry by a leading space only has
\* been accepted and returned with its space
C11_Witness ==
    /\ pc = "path"
    /\ typed = PaddedMain
    /\ selectedBranch = PaddedMain
    /\ defaultBranch \in Range(branches)

(***************************************************************************)
(* C12: getRemoteBranches returns exactly the branches of the configured   *)
(* remote, without the `<remote>/` in front: each of them except the       *)
(* remote's HEAD pointer, none of another remote, sorted by code units.    *)
(***************************************************************************)
\* `git branch -r` has answered
C12_Listed ==
    /\ \E k \in 1..Len(cmds) : cmds[k].verb = "git branch" /\ cmds[k].args = << << "-", "r" >> >>
    /\ outcome # "InventoryError"

\* the inventory is in ascending order
C12_Sorted ==
    \A k \in 1..(Len(branches) - 1) : ~StrLess(branches[k + 1], branches[k])

\* C12: the inventory is the sorted sequence of the branches of the remote
C12_InventoryIsRemoteBranches ==
    C12_Listed =>
        /\ Range(branches) = remoteRefs
        /\ Len(branches) = Cardinality(remoteRefs)
        /\ C12_Sorted

(***************************************************************************)
(* C14: a run with a branch name as its argument never lists the remote    *)
(* branches and never prompts; its only fetch is the one before the        *)
(* creation, whose failure is a warning, so a remote out of reach never    *)
(* ends it before `git worktree add` is attempted.                         *)
(***************************************************************************)
\* what holds in every state of a direct run
C14_NoInventory ==
    /\ pc \notin { "inventory", "select", "input" }
    /\ \A k \in 1..Len(cmds) :
          ~(cmds[k].verb = "git branch" /\ cmds[k].args = << << "-", "r" >> >>)
    /\ branches = << >>
    /\ typed = NoString
    /\ selectedBranch \in { NoString, branchName }
    /\ outcome \notin { "InventoryError", "EmptyInventory", "cancelled" }
    /\ Len(Issued("git fetch")) <= 1
    /\ pc = "done" /\ Issued("git worktree add") = << >> =>
          /\ outcome \in { "NotAGitRepository", "PathAlreadyExists" }
          /\ Issued("git fetch") = << >>

\* the steps of a direct run around its fetch
C14_FetchStep ==
    /\ Issued("git fetch")' # Issued("git fetch") =>
          pc = "fetch" /\ pc' = "create"
    /\ pc = "create" => Len(Issued("git worktree add")') = 1

C14_DirectBypassesInventory ==
    /\ [](branchName # NoString => C14_NoInventory)
    /\ [][branchName # NoString => C14_FetchStep]_vars

\* the fetch of a direct run has failed and its worktree has been created
C14_Witness ==
    /\ branchName # NoString
    /\ pc = "track"
    /\ warnings = 1
    /\ Len(Issued("git fetch")) = 1
    /\ Len(Issued("git worktree add")) = 1

(***************************************************************************)
(* C15: the post-create hooks run only when `git worktree add` succeeded,  *)
(* after the env copy, the install and the editor launch, one at a time in *)
(* the configured order; a hook that fails stops no later hook.            *)
(***************************************************************************)
\* the places in cmds of the hooks run so far
C15_HookPlaces == { k \in 1..Len(cmds) : cmds[k].verb = "hook" }

\* the words of a command line, as `split(' ')` gives them
C15_Words(line) == Split(line, " ")

\* what holds of the hooks run so far
C15_HooksSoFar ==
    /\ C15_HookPlaces # {} =>
          /\ Created
          /\ WorktreeDir \in dirs
          /\ pc \in { "hooks", "finish", "done" }
          /\ outcome \in { "running", "ok" }
          /\ config.copy # FALSE => Len(copied) = Len(envFiles) /\ Issued("find") # << >>
          /\ config.install # FALSE => Issued("install") # << >>
          /\ config.open # FALSE => Len(Issued("code")) = 1
    /\ \A k \in C15_HookPlaces, j \in 1..Len(cmds) :
          cmds[j].verb \in { "find", "mkdir", "cp", "install", "code", "git worktree add" }
              => j < k
    /\ Len(Issued("hook")) <= Len(config.postCreate)
    /\ \A j \in 1..Len(Issued("hook")) :
          /\ Issued("hook")[j].args = C15_Words(config.postCreate[j])
          /\ Issued("hook")[j].cwd = WorktreeDir
    /\ outcome = "ok" => Len(Issued("hook")) = Len(config.postCreate)

\* one turn of the loop: one hook, and the loop goes on whatever its result
C15_HookStep ==
    pc = "hooks" =>
        /\ Len(cmds') = Len(cmds) + 1
        /\ cmds'[Len(cmds')].verb = "hook"
        /\ pc' = IF Len(Issued("hook")') < Len(config.postCreate)
                 THEN "hooks" ELSE "finish"

C15_HooksRunInOrder ==
    /\ []C15_HooksSoFar
    /\ [][C15_HookStep]_vars

\* two hooks have run and both have failed, as the fetch, the tracking
\* setup and the editor did
C15_Witness ==
    /\ outcome = "ok"
    /\ Len(config.postCreate) = 2
    /\ Len(Issued("hook")) = 2
    /\ warnings = 5

(***************************************************************************)
(* C16: when `git worktree add` fails the run ends with a non-zero exit    *)
(* code and no later step is executed: no change of working directory, no  *)
(* tracking setup, no push, no env-file copy, no install, no editor, no    *)
(* hook.                                                                   *)
(***************************************************************************)
\* `git worktree add` was run and made no worktree
C16_AddFailed ==
    /\ Len(Issued("git worktree add")) = 1
    /\ WorktreeDir \notin dirs

C16_CreationFailureEndsRun ==
    C16_AddFailed =>
        /\ pc = "done"
        /\ exitCode # 0
        /\ outcome = "WorktreeCreationError"
        /\ cwd = StartDir
        /\ cmds[Len(cmds)].verb = "git worktree add"
        /\ \A k \in 1..Len(cmds) :
              /\ cmds[k].cwd = StartDir
              /\ cmds[k].verb \notin { "git config", "git push", "find", "mkdir",
                                       "cp", "install", "code", "hook" }
              /\ cmds[k].verb = "git branch" => cmds[k].args = << << "-", "r" >> >>
        /\ upstream = {}
        /\ gitConfig = {}
        /\ pushed = {}
        /\ copied = << >>
        /\ hookPos = 1

\* the creation failed in a run that had hooks, the auto-push, the env copy,
\* the install and the editor to go
C16_Witness ==
    /\ C16_AddFailed
    /\ pc = "done"
    /\ Len(config.postCreate) = 2
    /\ config.pushNewBranches = TRUE
    /\ config.copy # FALSE /\ config.install # FALSE /\ config.open # FALSE

(***************************************************************************)
(* C17: the install step leaves the settings of $ as it found them: on a   *)
(* normal return and on a thrown install failure, $.verbose and $.cwd have *)
(* the values they had on entry; the custom-command path restores          *)
(* $.verbose on success and on failure.                                    *)
(***************************************************************************)
\* the run is inside the try block of the install step
C17_Inside == pc \in { "installing", "installed" }

C17_ShellRestored ==
    /\ C17_Inside =>
          /\ installFrame.entered
          /\ shell.verbose = TRUE
          /\ ~installFrame.custom => shell.cwd = WorktreeDir
    /\ ~C17_Inside =>
          /\ shell.verbose = FALSE
          /\ shell.cwd = NoString
          /\ installFrame.entered =>
                /\ shell.verbose = installFrame.originalVerbose
                /\ shell.cwd = installFrame.originalCwd

\* installDependencies has thrown and the run has ended
C17_Witness ==
    /\ pc = "done"
    /\ installFrame.entered
    /\ installFrame.thrown
    /\ ~installFrame.custom
    /\ shell = InitialShell

(***************************************************************************)
(* C18: when the install command fails (detected or forced package         *)
(* manager, or the custom command) the run exits non-zero, launches no     *)
(* editor and runs no hook; the worktree, the branch and the env files     *)
(* copied stay in place.                                                   *)
(***************************************************************************)
\* the install command has failed and the finally block has run
C18_InstallFailed == installFrame.thrown /\ pc # "installed"

C18_InstallFailureEndsRun ==
    C18_InstallFailed =>
        /\ pc = "done"
        /\ exitCode # 0
        /\ Issued("code") = << >>
        /\ Issued("hook") = << >>
        /\ cmds[Len(cmds)].verb = "install"
        /\ WorktreeDir \in dirs
        /\ selectedBranch \in localRefs
        /\ Len(Issued("git worktree add")) = 1
        /\ config.copy # FALSE =>
              /\ Len(copied) = Len(envFiles)
              /\ \A k \in 1..Len(copied) : copied[k].from = envFiles[k]

\* the custom install command has failed after an env file was copied, in
\* a run that would have opened the editor
C18_Witness ==
    /\ C18_InstallFailed
    /\ installFrame.custom
    /\ Len(copied) = 1
    /\ config.open # FALSE
    /\ exitCode = 1

C19_FetchesWhenDisabled ==
    /\ branchName # NoString => Issued("git fetch") = << >>
    /\ branchName = NoString =>
          /\ Len(Issued("git fetch")) <= 1
          /\ \A k \in 1..Len(cmds) :
                cmds[k].verb = "git fetch" =>
                    /\ k = 2
                    /\ cmds[1].verb = "git rev-parse"
                    /\ Len(cmds) > 2 =>
                          cmds[3].verb = "git branch" /\ cmds[3].args = << << "-", "r" >> >>
          /\ pc \notin { "start", "inventory" } /\ outcome # "NotAGitRepository" =>
                Len(Issued("git fetch")) = 1

\* the fetch step of such a run does nothing
C19_SkippedStep ==
    pc = "fetch" =>
        /\ cmds' = cmds
        /\ warnings' = warnings
        /\ pc' = "create"

C20_PromptedAndClassified ==
    /\ typed # NoString
    /\ selectedBranch = typed
    /\ classification # "none"

C20_PromptedIsNew ==
    C20_PromptedAndClassified =>
        /\ classification = "New"
        /\ Issued("git worktree add")[1].args =
              << worktreePath, << "-", "b" >>, selectedBranch, remote \o << "/" >> \o defaultBranch >>

(***************************************************************************)
(* C21: under the default location two different branch names never get   *)
(* the same worktree path, so the worktree of one branch never makes the   *)
(* path check fail for another branch.                                     *)
(***************************************************************************)
\* the branch names of the model
C21_Names == BranchNames \cup TypedNames \cup Range(branches)

\* the branch whose worktree may exist before the run
C21_Owner == FeatureX

\* the path of this run has been computed under the default location
C21_DefaultPath == config.location = NoString /\ worktreePath # NoString

\* a name with every `/` turned into `-`
C21_Flat(name) == [ k \in 1..Len(name) |-> IF name[k] = "/" THEN "-" ELSE name[k] ]

\* C21 as stated
C21_PathsNeverShared ==
    C21_DefaultPath =>
        /\ \A b \in C21_Names :
              b # selectedBranch => WorktreePath(NoString, b) # worktreePath
        /\ outcome = "PathAlreadyExists" => selectedBranch = C21_Owner

\* C21, amended: under the default location two branch names get the same
\* worktree path exactly when they are equal once every `/` is a `-`; the
\* worktree of one branch makes the path check fail for the branches of the
\* same flattened name, and for no other branch
C21_SharedPathIffSameFlatName ==
    C21_DefaultPath =>
        /\ \A b \in C21_Names :
              WorktreePath(NoString, b) = worktreePath
                  <=> C21_Flat(b) = C21_Flat(selectedBranch)
        /\ outcome = "PathAlreadyExists" =>
              C21_Flat(selectedBranch) = C21_Flat(C21_Owner)
        /\ /\ C21_Flat(selectedBranch) = C21_Flat(C21_Owner)
           /\ PathResolve(StartDir, WorktreePath(NoString, C21_Owner)) \in dirs
           /\ classification = "none"
           => outcome = "PathAlreadyExists"

\* the worktree of f/x/y has made the path check fail for f-x/y
C21_Witness ==
    /\ C21_DefaultPath
    /\ outcome = "PathAlreadyExists"
    /\ selectedBranch = FeatureDashX
    /\ selectedBranch # C21_Owner
    /\ exitCode = 1

(***************************************************************************)
(* Two invocations at the same time: the run above and a second one, for   *)
(* the same branch, in the same repository and with the same               *)
(* configuration. The second one is followed up to its `git worktree add`; *)
(* both share the file system and the refs.                                *)
(***************************************************************************)
\* what the second invocation does not touch
ownVars ==
    << pc, exitCode, outcome, warnings, config, branchName, remoteRefs,
       upstream, gitConfig, pushed, tree, branches, selectedBranch,
       worktreePath, originalDir, cwd, classification, cmds, allFiles,
       envFiles, envPos, copied, hookPos, typed, foreignRefs, shell,
       installFrame >>

\* a command of the second invocation, which stays in the main checkout
PeerCmd(verb, args) == [ verb |-> verb, args |-> args, cwd |-> StartDir ]

\* process.exit(code) in the second invocation
PeerExit(code, how) ==
    [ peer EXCEPT !.pc = "done", !.exitCode = code, !.outcome = how ]

\* the path computation and the existence check of the second invocation
PeerComputePath ==
    /\ peer.pc = "path"
    /\ LET path == WorktreePath(config.location, branchName)
       IN  peer' = IF PathResolve(StartDir, path) \in dirs
                   THEN PeerExit(1, "PathAlreadyExists")
                   ELSE [ peer EXCEPT !.pc = "fetch" ]
    /\ UNCHANGED << ownVars, dirs, localRefs >>

\* the fetch before the creation, in the second invocation
PeerFetchLatest ==
    /\ peer.pc = "fetch"
    /\ peer' = [ peer EXCEPT
                   !.pc = "create",
                   !.cmds = IF FetchEnabled(config)
                            THEN Append(@, PeerCmd("git fetch", << remote >>))
                            ELSE @ ]
    /\ UNCHANGED << ownVars, dirs, localRefs >>

\* the try block around `git worktree add`, in the second invocation
PeerCreateWorktree ==
    /\ peer.pc = "create"
    /\ LET path  == WorktreePath(config.location, branchName)
           class == Classify(branchName, localRefs, remoteRefs)
           add   == PeerCmd("git worktree add", WorktreeAddArgs(class, path, branchName))
           can   == /\ PathResolve(StartDir, path) \notin dirs
                    /\ \/ class = "LocalExisting"
                       \/ class = "RemoteExisting" /\ branchName \in remoteRefs
                       \/ class = "New" /\ defaultBranch \in remoteRefs
       IN  \E ok \in BOOLEAN :
             IF ok /\ can
             THEN /\ dirs' = dirs \cup { PathResolve(StartDir, path) }
                  /\ localRefs' = localRefs \cup { branchName }
                  /\ peer' = [ peer EXCEPT !.pc = "rest", !.created = TRUE,
                                           !.cmds = Append(@, add) ]
             ELSE /\ peer' = [ PeerExit(1, "WorktreeCreationError") EXCEPT
                                 !.cmds = Append(@, add) ]
                  /\ UNCHANGED << dirs, localRefs >>
    /\ UNCHANGED ownVars

\* the steps of the second invocation after the creation, up to its end
PeerFinish ==
    /\ peer.pc = "rest"
    /\ \E code \in { 0, 1 } :
         peer' = PeerExit(code, IF code = 0 THEN "ok" ELSE "InstallError")
    /\ UNCHANGED << ownVars, dirs, localRefs >>

\* both invocations have passed the repository check, for the same branch
InitPair ==
    /\ pc = "path"
    /\ exitCode = 0
    /\ outcome = "running"
    /\ warnings = 0
    /\ config \in { DefaultConfig, [ DefaultConfig EXCEPT !.fetch = FALSE ] }
    /\ branchName = FeatureX
    /\ localRefs \in SUBSET RefNames
    /\ remoteRefs \in SUBSET RefNames
    /\ upstream = {}
    /\ gitConfig = {}
    /\ pushed = {}
    /\ dirs \in { d \cup { StartDir } : d \in ExistingDirs }
    /\ tree = << FileUniverse[1] >>
    /\ branches = << >>
    /\ selectedBranch = FeatureX
    /\ worktreePath = NoString
    /\ originalDir = NoString
    /\ cwd = StartDir
    /\ classification = "none"
    /\ cmds = << PeerCmd("git rev-parse", << << "-", "-", "g", "i", "t", "-", "d", "i", "r" >> >>) >>
    /\ allFiles = << >>
    /\ envFiles = << >>
    /\ envPos = 1
    /\ copied = << >>
    /\ hookPos = 1
    /\ typed = NoString
    /\ foreignRefs = {}
    /\ peer = [ pc |-> "path", exitCode |-> 0, outcome |-> "running",
                created |-> FALSE,
                cmds |-> << PeerCmd("git rev-parse", << << "-", "-", "g", "i", "t", "-", "d", "i", "r" >> >>) >> ]
    /\ shell = InitialShell
    /\ installFrame = NoFrame

NextPair ==
    \/ ComputePath
    \/ FetchLatest
    \/ CreateWorktree
    \/ TrackingSetup
    \/ FindEnvFiles
    \/ CopyEnvFile
    \/ InstallDependencies
    \/ RunInstall
    \/ InstallFinally
    \/ OpenEditor
    \/ Finish
    \/ PeerComputePath
    \/ PeerFetchLatest
    \/ PeerCreateWorktree
    \/ PeerFinish

SpecPair == InitPair /\ [][NextPair]_vars

(***************************************************************************)
(* C13: of two invocations that run at the same time for the same worktree *)
(* path, in every interleaving exactly one creates the worktree and the    *)
(* other ends at the check of the path, with a non-zero exit code and      *)
(* before it issues a fetch or a `git worktree add`.                       *)
(***************************************************************************)
\* an invocation that ended as the claim says the losing one does
C13_StoppedAtCheck(how, code, issued) ==
    /\ how = "PathAlreadyExists"
    /\ code # 0
    /\ \A k \in 1..Len(issued) :
         issued[k].verb \notin { "git fetch", "git worktree add" }

\* the worktree directory was not there when the two started
C13_PathWasFree ==
    \/ Created
    \/ peer.created

C13_ExactlyOneCreates ==
    pc = "done" /\ peer.pc = "done" /\ C13_PathWasFree =>
        \/ /\ Created
           /\ ~peer.created
           /\ C13_StoppedAtCheck(peer.outcome, peer.exitCode, peer.cmds)
        \/ /\ peer.created
           /\ ~Created
           /\ C13_StoppedAtCheck(outcome, exitCode, cmds)

=============================================================================
